---- MODULE Spec2Model ----
(***************************************************************************)
(* Client-side controller of the timed quiz (static/app.js).               *)
(*                                                                         *)
(* The script serves two pages.  The landing page (no QUIZ_ID defined)     *)
(* runs loadClasses, checkCode, onClassChange and joinQuiz; the quiz page   *)
(* (QUIZ_ID defined) runs loadQuiz, tick and submitQuiz.  Each page is     *)
(* one specification over the same variables: SpecLanding and SpecQuiz.    *)
(* JavaScript is single threaded, so every action is one run               *)
(* of a handler from its entry (or from the await it resumes at) to its    *)
(* next await or return.  The server is an opaque peer: every response     *)
(* the interface table allows is chosen nondeterministically.              *)
(*                                                                         *)
(* Text is a sequence of one-character strings where the code inspects     *)
(* characters (trim, replace, split); messages that are only displayed     *)
(* are plain strings.                                                      *)
(***************************************************************************)
EXTENDS Integers, Sequences, FiniteSets, Bags, TLC

VARIABLES
    \* ---- quiz page ----
    DURATION,          \* page global: exam duration in seconds
    remaining,         \* let remaining = DURATION                  (line 75)
    timerEl,           \* timerEl.textContent                       (line 82)
    timerPending,      \* a setTimeout(tick, 1000) is outstanding
    quizFetch,         \* loadQuiz: its position and the response it awaits
    inputs,            \* the answer inputs of quizForm, in document order
    submitBtnDisabled, \* submitBtn.disabled
    submitStatus,      \* submitStatus: [text, className]
    resultModals,      \* number of #resultModal blocks inserted in body
    submitCalls,       \* bag of submitQuiz calls suspended at an await
    nTicks,            \* observer: runs of tick so far
    nTimerSubmits,     \* observer: calls of submitQuiz made by tick
    nSubmitSent,       \* observer: requests sent to /api/submit
    nAccepted,         \* observer: requests the server answered ok:true
    \* ---- landing page ----
    currentCode,       \* let currentCode = ''                      (line 35)
    codeStatus,        \* codeStatus.textContent
    codeFormDisplay,   \* student-code-form.style.display
    studentFormDisplay,\* student-form.style.display
    classesFetch,      \* loadClasses: "fetching" or "done"
    classOptions,      \* option values of classSel after the placeholder
    classSel,          \* classSel.value
    nameOptions,       \* option values of nameSel after the placeholder
    joinStatus,        \* joinStatus.textContent
    checkCalls,        \* bag of checkCode calls awaiting /api/check_code
    rosterCalls,       \* bag of onClassChange fetches awaiting /api/classes
    joinCalls,         \* bag of joinQuiz calls awaiting register or join
    location,          \* location.href once set by joinQuiz, else ""
    verifiedCodes,     \* observer: codes /api/check_code answered ok:true
    joinedIds,         \* observer: quiz ids /api/join answered ok:true with
    \* ---- quiz page: integrity reporter ----
    logCalls,          \* bag of fetches awaiting /log_event
    bannerVisible,     \* anticheat-banner is shown
    bannerTimers,      \* outstanding 3 s timers that hide the banner
    nBlurs,            \* observer: blur events dispatched to the window
    nLogSent,          \* observer: requests sent to /log_event
    nLogUncaught,      \* observer: log failures that escaped the listener
    \* ---- answer collection on its own ----
    questionSet,       \* the question set the form was built from
    sentAnswers        \* the answers mapping submitQuiz computed last

quizVars == <<DURATION, remaining, timerEl, timerPending, quizFetch, inputs,
              submitBtnDisabled, submitStatus, resultModals, submitCalls,
              nTicks, nTimerSubmits, nSubmitSent, nAccepted>>

landingVars == <<currentCode, codeStatus, codeFormDisplay, studentFormDisplay,
                 classesFetch, classOptions, classSel, nameOptions, joinStatus,
                 checkCalls, rosterCalls, joinCalls, location, verifiedCodes,
                 joinedIds>>

integrityVars == <<logCalls, bannerVisible, bannerTimers, nBlurs, nLogSent,
                   nLogUncaught>>

answerVars == <<questionSet, sentAnswers>>

vars == <<quizVars, landingVars, integrityVars, answerVars>>

(***************************************************************************)
(* Bounds of the model.                                                    *)
(***************************************************************************)
MaxDuration == 2      \* DURATION ranges over 0..MaxDuration
MaxSubmits == 2       \* submission requests sent per page load
MaxInFlight == 2      \* landing page: requests awaiting a response
MaxBlurs == 1         \* focus losses per page load

(***************************************************************************)
(* Page globals and display strings.                                       *)
(***************************************************************************)
QUIZ_ID == "Q9"
STUDENT_NAME == "Nguyen An"
MsgSubmitFallback == "Loi nop bai"
MsgMissingCode == "Vui long nhap ma ky thi!"
MsgCheckFallback == "Loi kiem tra ma"
MsgNoClass == "Vui long chon lop!"
MsgNoName == "Vui long chon ten!"
MsgRegisterFallback == "Loi luu ten"
MsgJoinFallback == "Loi tham gia"

(***************************************************************************)
(* What an awaited fetch(...).then(r => r.json()) holds: nothing yet, a    *)
(* rejection (fetch rejected, or the body is no JSON), or the parsed data. *)
(***************************************************************************)
NoData == [ok |-> FALSE, error |-> "", score |-> 0, total |-> 0, quiz_id |-> "",
           questions |-> <<>>, classes |-> <<>>]
Pending == [kind |-> "pending", data |-> NoData]
NetworkError == [kind |-> "rejected", data |-> NoData]
Json(data) == [kind |-> "json", data |-> data]

(***************************************************************************)
(* Timer rendering (lines 79-83).                                          *)
(***************************************************************************)
JsRem(a, b) == IF a >= 0 THEN a % b ELSE -((-a) % b)

PadStart2(s) == IF Len(s) < 2 THEN "0" \o s ELSE s

renderTimer(rem) ==
    LET m == PadStart2(ToString(rem \div 60))
        s == PadStart2(ToString(JsRem(rem, 60)))
    IN  m \o ":" \o s

(***************************************************************************)
(* The question set the server serves for QUIZ_ID, and the responses of    *)
(* GET /api/quiz/<id>.                                                     *)
(***************************************************************************)
Opt(label) == [label |-> label]

Questions ==
    << [id |-> <<"1">>, multi |-> FALSE, options |-> <<Opt("A"), Opt("B")>>],
       [id |-> <<"2">>, multi |-> TRUE,  options |-> <<Opt("A"), Opt("B")>>] >>

QuizResponses ==
    { Json([NoData EXCEPT !.error = "Quiz not found"]),
      Json([NoData EXCEPT !.questions = Questions]) }

(***************************************************************************)
(* loadQuiz, form building (lines 97-117): one input per option.           *)
(***************************************************************************)
InputOf(q, opt) ==
    [ type    |-> IF q.multi THEN "checkbox" ELSE "radio",
      name    |-> <<"q", "_">> \o q.id \o (IF q.multi THEN <<"[", "]">> ELSE <<>>),
      value   |-> opt.label,
      checked |-> FALSE ]

RECURSIVE OptionInputs(_, _)
OptionInputs(q, opts) ==
    IF opts = <<>> THEN <<>>
    ELSE <<InputOf(q, Head(opts))>> \o OptionInputs(q, Tail(opts))

RECURSIVE BuildInputs(_)
BuildInputs(qs) ==
    IF qs = <<>> THEN <<>>
    ELSE OptionInputs(Head(qs), Head(qs).options) \o BuildInputs(Tail(qs))

(***************************************************************************)
(* submitQuiz, answer collection (lines 125-136).                          *)
(***************************************************************************)
\* String.prototype.replace('[]', ''): drops the first occurrence of "[]".
RECURSIVE ReplaceBrackets(_)
ReplaceBrackets(s) ==
    IF Len(s) < 2 THEN s
    ELSE IF s[1] = "[" /\ s[2] = "]" THEN SubSeq(s, 3, Len(s))
    ELSE <<s[1]>> \o ReplaceBrackets(Tail(s))

\* The prefix of s before its first "_" (all of s when it has none).
RECURSIVE UpToUnderscore(_)
UpToUnderscore(s) ==
    IF s = <<>> \/ s[1] = "_" THEN <<>>
    ELSE <<s[1]>> \o UpToUnderscore(Tail(s))

\* k.split('_')[1]: the piece between the first and the second "_".
SplitSecond(k) ==
    LET first == UpToUnderscore(k)
    IN  IF Len(first) = Len(k) THEN <<"undefined">>
        ELSE UpToUnderscore(SubSeq(k, Len(first) + 2, Len(k)))

\* answers as the insertion-ordered list of <<key, labels>> pairs.
RECURSIVE KeyIndex(_, _)
KeyIndex(pairs, key) ==
    IF pairs = <<>> THEN 0
    ELSE IF pairs[Len(pairs)][1] = key THEN Len(pairs)
    ELSE KeyIndex(SubSeq(pairs, 1, Len(pairs) - 1), key)

RECURSIVE CollectAnswers(_, _)
CollectAnswers(inps, answers) ==
    IF inps = <<>> THEN answers
    ELSE LET inp  == Head(inps)
             name == ReplaceBrackets(inp.name)
             a1   == IF KeyIndex(answers, name) = 0
                     THEN Append(answers, <<name, <<>>>>)
                     ELSE answers
             i    == KeyIndex(a1, name)
             a2   == IF inp.checked
                     THEN [a1 EXCEPT ![i] = <<name, Append(a1[i][2], inp.value)>>]
                     ELSE a1
         IN  CollectAnswers(Tail(inps), a2)

\* formatted[qid] = answers[k], in key order; a later key overwrites.
RECURSIVE FormatAnswers(_, _)
FormatAnswers(answers, formatted) ==
    IF answers = <<>> THEN formatted
    ELSE LET qid == SplitSecond(Head(answers)[1])
             f1  == [x \in (DOMAIN formatted) \cup {qid} |->
                        IF x = qid THEN Head(answers)[2] ELSE formatted[x]]
         IN  FormatAnswers(Tail(answers), f1)

Formatted(inps) == FormatAnswers(CollectAnswers(inps, <<>>), <<>>)

(***************************************************************************)
(* Responses of POST /api/submit/<id>.                                     *)
(***************************************************************************)
SubmitResponses ==
    { Json([NoData EXCEPT !.ok = TRUE, !.score = 1, !.total = 2]),
      Json([NoData EXCEPT !.error = "Already submitted"]),
      Json(NoData) }

SubmitCall(body, resp) == [body |-> body, resp |-> resp]

InFlight == {c \in BagToSet(submitCalls) : c.resp = Pending}
NumInFlight ==
    LET S == InFlight
        RECURSIVE Sum(_)
        Sum(T) == IF T = {} THEN 0
                  ELSE LET c == CHOOSE x \in T : TRUE
                       IN  CopiesIn(c, submitCalls) + Sum(T \ {c})
    IN  Sum(S)

(***************************************************************************)
(* The landing-page state while the quiz page is the one loaded.           *)
(***************************************************************************)
LandingIdle ==
    /\ currentCode = <<>>
    /\ codeStatus = ""
    /\ codeFormDisplay = "none"
    /\ studentFormDisplay = "none"
    /\ classesFetch = "done"
    /\ classOptions = <<>>
    /\ classSel = ""
    /\ nameOptions = <<>>
    /\ joinStatus = ""
    /\ checkCalls = EmptyBag
    /\ rosterCalls = EmptyBag
    /\ joinCalls = EmptyBag
    /\ location = ""
    /\ verifiedCodes = {}
    /\ joinedIds = {}

(***************************************************************************)
(* The integrity reporter before any blur (lines 182-191), and the         *)
(* variables of the stand-alone answer collection while unused.            *)
(***************************************************************************)
IntegrityIdle ==
    /\ logCalls = EmptyBag
    /\ bannerVisible = FALSE
    /\ bannerTimers = 0
    /\ nBlurs = 0
    /\ nLogSent = 0
    /\ nLogUncaught = 0

AnswersIdle ==
    /\ questionSet = <<>>
    /\ sentAnswers = <<>>

(***************************************************************************)
(* Quiz page: initial state (lines 72-78, 121).  loadQuiz() has run to     *)
(* its first await; submitBtn comes enabled from the markup.               *)
(***************************************************************************)
InitQuiz ==
    /\ DURATION \in 0..MaxDuration
    /\ remaining = DURATION
    /\ timerEl = ""
    /\ timerPending = FALSE
    /\ quizFetch = [pc |-> "fetching", resp |-> Pending]
    /\ inputs = <<>>
    /\ submitBtnDisabled = FALSE
    /\ submitStatus = [text |-> "", className |-> ""]
    /\ resultModals = 0
    /\ submitCalls = EmptyBag
    /\ nTicks = 0
    /\ nTimerSubmits = 0
    /\ nSubmitSent = 0
    /\ nAccepted = 0
    /\ LandingIdle
    /\ IntegrityIdle
    /\ AnswersIdle

(***************************************************************************)
(* submitQuiz from its entry to the await of fetch (lines 122-137).        *)
(* confirmed is what confirm() returned.                                   *)
(***************************************************************************)
DisabledOnEntry == TRUE                                     \* line 124

\* Faulty variant: the answer to confirm() is not looked at.
ConfirmIgnored(confirmed) == TRUE

Proceeds(confirmed) == confirmed                            \* line 123

submitQuizEntry(confirmed) ==
    IF ~Proceeds(confirmed)
    THEN UNCHANGED <<submitBtnDisabled, submitCalls, nSubmitSent>>
    ELSE /\ nSubmitSent < MaxSubmits
         /\ submitBtnDisabled' = DisabledOnEntry
         /\ submitCalls' = submitCalls (+) SetToBag({SubmitCall(Formatted(inputs), Pending)})
         /\ nSubmitSent' = nSubmitSent + 1

(***************************************************************************)
(* loadQuiz (lines 93-120).                                                *)
(***************************************************************************)
QuizFetchResponse(resp) ==
    /\ quizFetch.pc = "fetching"
    /\ quizFetch' = [pc |-> "answered", resp |-> resp]
    /\ UNCHANGED landingVars
    /\ UNCHANGED <<integrityVars, answerVars>>
    /\ UNCHANGED <<DURATION, remaining, timerEl, timerPending, inputs,
                   submitBtnDisabled, submitStatus, resultModals, submitCalls,
                   nTicks, nTimerSubmits, nSubmitSent, nAccepted>>

\* Faulty variant: the error field is not looked at.
HasErrorIgnored(data) == FALSE

HasError(data) == data.error # ""                           \* line 96

\* quizFetch keeps the response loadQuiz ran with.
loadQuiz ==
    /\ quizFetch.pc = "answered"
    /\ quizFetch' = [pc |-> "done", resp |-> quizFetch.resp]
    /\ IF quizFetch.resp = NetworkError
       THEN UNCHANGED <<submitStatus, inputs, timerEl, timerPending>>
       ELSE IF HasError(quizFetch.resp.data)
       THEN /\ submitStatus' = [submitStatus EXCEPT !.text = quizFetch.resp.data.error]
            /\ UNCHANGED <<inputs, timerEl, timerPending>>
       ELSE /\ inputs' = inputs \o BuildInputs(quizFetch.resp.data.questions)
            /\ timerEl' = renderTimer(remaining)
            /\ timerPending' = TRUE
            /\ UNCHANGED submitStatus
    /\ UNCHANGED landingVars
    /\ UNCHANGED <<integrityVars, answerVars>>
    /\ UNCHANGED <<DURATION, remaining, submitBtnDisabled, resultModals,
                   submitCalls, nTicks, nTimerSubmits, nSubmitSent, nAccepted>>

(***************************************************************************)
(* The student checks or unchecks an answer input.  A radio unchecks the   *)
(* other radios of its name; a checkbox toggles (lines 107-108).           *)
(***************************************************************************)
ClickInput(i) ==
    /\ i \in 1..Len(inputs)
    /\ IF inputs[i].type = "radio"
       THEN /\ ~inputs[i].checked
            /\ inputs' = [j \in 1..Len(inputs) |->
                   IF j = i THEN [inputs[j] EXCEPT !.checked = TRUE]
                   ELSE IF inputs[j].type = "radio" /\ inputs[j].name = inputs[i].name
                        THEN [inputs[j] EXCEPT !.checked = FALSE]
                        ELSE inputs[j]]
       ELSE inputs' = [inputs EXCEPT ![i].checked = ~@]
    /\ UNCHANGED landingVars
    /\ UNCHANGED <<integrityVars, answerVars>>
    /\ UNCHANGED <<DURATION, remaining, timerEl, timerPending, quizFetch,
                   submitBtnDisabled, submitStatus, resultModals, submitCalls,
                   nTicks, nTimerSubmits, nSubmitSent, nAccepted>>

(***************************************************************************)
(* tick (lines 84-92).  At expiry it calls submitQuiz, which runs up to    *)
(* its first await inside the same task.                                   *)
(***************************************************************************)
\* Faulty variant: the expiry test misses remaining = 0.
ExpiredBelowZero(rem) == rem < 0

Expired(rem) == rem <= 0                                    \* line 87

tick(confirmed) ==
    /\ timerPending
    /\ remaining' = remaining - 1
    /\ timerEl' = renderTimer(remaining')
    /\ nTicks' = nTicks + 1
    /\ IF Expired(remaining')
       THEN /\ timerPending' = FALSE
            /\ nTimerSubmits' = nTimerSubmits + 1
            /\ submitQuizEntry(confirmed)
       ELSE /\ confirmed
            /\ timerPending' = TRUE
            /\ UNCHANGED <<nTimerSubmits, submitBtnDisabled, submitCalls, nSubmitSent>>
    /\ UNCHANGED landingVars
    /\ UNCHANGED <<integrityVars, answerVars>>
    /\ UNCHANGED <<DURATION, quizFetch, inputs, submitStatus, resultModals, nAccepted>>

(***************************************************************************)
(* The student clicks the submit button.  A disabled button dispatches no  *)
(* click, so the handler runs only while submitBtn is enabled.  A declined  *)
(* confirm returns at line 123: the step changes nothing.                  *)
(***************************************************************************)
ManualSubmit(confirmed) ==
    /\ ~submitBtnDisabled
    /\ submitQuizEntry(confirmed)
    /\ UNCHANGED landingVars
    /\ UNCHANGED <<integrityVars, answerVars>>
    /\ UNCHANGED <<DURATION, remaining, timerEl, timerPending, quizFetch, inputs,
                   submitStatus, resultModals, nTicks, nTimerSubmits, nAccepted>>

(***************************************************************************)
(* The server answers a submission request.                                *)
(***************************************************************************)
ServerSubmit(c, resp) ==
    /\ c \in InFlight
    /\ submitCalls' = (submitCalls (-) SetToBag({c})) (+) SetToBag({SubmitCall(c.body, resp)})
    /\ nAccepted' = IF resp.kind = "json" /\ resp.data.ok THEN nAccepted + 1 ELSE nAccepted
    /\ UNCHANGED landingVars
    /\ UNCHANGED <<integrityVars, answerVars>>
    /\ UNCHANGED <<DURATION, remaining, timerEl, timerPending, quizFetch, inputs,
                   submitBtnDisabled, submitStatus, resultModals,
                   nTicks, nTimerSubmits, nSubmitSent>>

(***************************************************************************)
(* submitQuiz resumed with the response (lines 138-170).  A rejected       *)
(* fetch or res.json() throws out of the async function: nothing after     *)
(* the await runs.                                                         *)
(***************************************************************************)
ScoreText(data) == "Da nop! Diem: " \o ToString(data.score) \o "/" \o ToString(data.total)

\* Faulty variant: the button is released only after an accepted submission.
DisabledAfterRejection(data) == ~data.ok

DisabledAfterResponse(data) == FALSE                        \* line 170

submitQuizResume(c) ==
    /\ c \in BagToSet(submitCalls)
    /\ c.resp # Pending
    /\ submitCalls' = submitCalls (-) SetToBag({c})
    /\ IF c.resp = NetworkError
       THEN UNCHANGED <<submitStatus, resultModals, submitBtnDisabled>>
       ELSE /\ IF c.resp.data.ok
               THEN /\ submitStatus' = [text |-> ScoreText(c.resp.data),
                                        className |-> "text-success"]
                    /\ resultModals' = resultModals + 1
               ELSE /\ submitStatus' = [text |-> IF c.resp.data.error # ""
                                                 THEN c.resp.data.error
                                                 ELSE MsgSubmitFallback,
                                        className |-> "text-danger"]
                    /\ UNCHANGED resultModals
            /\ submitBtnDisabled' = DisabledAfterResponse(c.resp.data)
    /\ UNCHANGED landingVars
    /\ UNCHANGED <<integrityVars, answerVars>>
    /\ UNCHANGED <<DURATION, remaining, timerEl, timerPending, quizFetch, inputs,
                   nTicks, nTimerSubmits, nSubmitSent, nAccepted>>

NextQuiz ==
    \/ \E resp \in QuizResponses \cup {NetworkError} : QuizFetchResponse(resp)
    \/ loadQuiz
    \/ \E i \in 1..Len(inputs) : ClickInput(i)
    \/ \E confirmed \in BOOLEAN : tick(confirmed)
    \/ \E confirmed \in BOOLEAN : ManualSubmit(confirmed)
    \/ \E c \in InFlight : \E resp \in SubmitResponses \cup {NetworkError} : ServerSubmit(c, resp)
    \/ \E c \in BagToSet(submitCalls) : submitQuizResume(c)

SpecQuiz == InitQuiz /\ [][NextQuiz]_vars

(***************************************************************************)
(*                           LANDING PAGE                                  *)
(***************************************************************************)

(***************************************************************************)
(* The class roster the server serves at /api/classes, in the key order    *)
(* of the JSON object, and the collation order of the strings in it.       *)
(***************************************************************************)
Roster ==
    << [class |-> "10B", students |-> <<>>],
       [class |-> "10A", students |-> <<"Binh", "An">>] >>

CollationOrder == <<"10A", "10B", "An", "Binh">>

Rank(x) == CHOOSE i \in 1..Len(CollationOrder) : CollationOrder[i] = x

Values(seq) == {seq[i] : i \in 1..Len(seq)}

\* Array.prototype.sort with a comparator on Rank (stable).
RECURSIVE InsertSorted(_, _)
InsertSorted(sorted, x) ==
    IF sorted = <<>> THEN <<x>>
    ELSE IF Rank(x) < Rank(Head(sorted)) THEN <<x>> \o sorted
    ELSE <<Head(sorted)>> \o InsertSorted(Tail(sorted), x)

RECURSIVE SortByRank(_)
SortByRank(seq) ==
    IF seq = <<>> THEN <<>>
    ELSE InsertSorted(SortByRank(SubSeq(seq, 1, Len(seq) - 1)), seq[Len(seq)])

\* Object.keys(data)
RECURSIVE Keys(_)
Keys(data) == IF data = <<>> THEN <<>> ELSE <<Head(data).class>> \o Keys(Tail(data))

\* data[cls] || []
RECURSIVE Lookup(_, _)
Lookup(data, cls) ==
    IF data = <<>> THEN <<>>
    ELSE IF Head(data).class = cls THEN Head(data).students
    ELSE Lookup(Tail(data), cls)

ClassesResponses == { Json([NoData EXCEPT !.classes = Roster]), NetworkError }

(***************************************************************************)
(* Access codes as typed, and String.prototype.trim (line 37).             *)
(***************************************************************************)
AccessCodeInputs ==
    { <<>>, <<" ", " ">>, <<"A">>, <<" ", "A", " ">>, <<"B">> }

RECURSIVE TrimStart(_)
TrimStart(s) == IF s # <<>> /\ Head(s) = " " THEN TrimStart(Tail(s)) ELSE s

RECURSIVE TrimEnd(_)
TrimEnd(s) ==
    IF s # <<>> /\ s[Len(s)] = " " THEN TrimEnd(SubSeq(s, 1, Len(s) - 1)) ELSE s

\* Faulty variant: the input is used untrimmed.
TrimNothing(s) == s

Trim(s) == TrimEnd(TrimStart(s))

(***************************************************************************)
(* Responses of the check_code, register and join endpoints.               *)
(***************************************************************************)
OkErrorResponses ==
    { Json([NoData EXCEPT !.ok = TRUE]),
      Json([NoData EXCEPT !.error = "Rejected by server"]),
      Json(NoData),
      NetworkError }

JoinResponses ==
    { Json([NoData EXCEPT !.ok = TRUE, !.quiz_id = QUIZ_ID]),
      Json([NoData EXCEPT !.error = "Rejected by server"]),
      Json(NoData),
      NetworkError }

\* data.error || fallback
ErrorOr(data, fallback) == IF data.error # "" THEN data.error ELSE fallback

(***************************************************************************)
(* What the markup lets the student reach.  The page is live until         *)
(* joinQuiz navigates away.  The code form is revealed by                  *)
(* toggleStudentCodeForm and replaced by the student form (class and name  *)
(* selectors, join button) when a code check succeeds.                     *)
(***************************************************************************)
PageLive == location = ""
LandingInFlight ==
    BagCardinality(checkCalls) + BagCardinality(rosterCalls) + BagCardinality(joinCalls)
CodeFormVisible == codeFormDisplay = "block"
StudentFormVisible == studentFormDisplay = "block"

(***************************************************************************)
(* The quiz-page state while the landing page is the one loaded.           *)
(***************************************************************************)
QuizIdle ==
    /\ DURATION = 0
    /\ remaining = 0
    /\ timerEl = ""
    /\ timerPending = FALSE
    /\ quizFetch = [pc |-> "done", resp |-> Pending]
    /\ inputs = <<>>
    /\ submitBtnDisabled = FALSE
    /\ submitStatus = [text |-> "", className |-> ""]
    /\ resultModals = 0
    /\ submitCalls = EmptyBag
    /\ nTicks = 0
    /\ nTimerSubmits = 0
    /\ nSubmitSent = 0
    /\ nAccepted = 0

(***************************************************************************)
(* Landing page: initial state (lines 35, 197).  loadClasses() has run to  *)
(* its first await.                                                        *)
(***************************************************************************)
InitLanding ==
    /\ currentCode = <<>>
    /\ codeStatus = ""
    /\ codeFormDisplay = "none"
    /\ studentFormDisplay = "none"
    /\ classesFetch = "fetching"
    /\ classOptions = <<>>
    /\ classSel = ""
    /\ nameOptions = <<>>
    /\ joinStatus = ""
    /\ checkCalls = EmptyBag
    /\ rosterCalls = EmptyBag
    /\ joinCalls = EmptyBag
    /\ location = ""
    /\ verifiedCodes = {}
    /\ joinedIds = {}
    /\ QuizIdle
    /\ IntegrityIdle
    /\ AnswersIdle

(***************************************************************************)
(* loadClasses resumed with the roster (lines 4-13).                       *)
(***************************************************************************)
loadClasses(resp) ==
    /\ PageLive
    /\ classesFetch = "fetching"
    /\ classesFetch' = "done"
    /\ IF resp.kind = "json"
       THEN /\ classOptions' = SortByRank(Keys(resp.data.classes))
            /\ classSel' = ""
            /\ nameOptions' = <<>>
       ELSE UNCHANGED <<classOptions, classSel, nameOptions>>
    /\ UNCHANGED <<currentCode, codeStatus, codeFormDisplay, studentFormDisplay,
                   joinStatus, checkCalls, rosterCalls, joinCalls, location,
                   verifiedCodes, joinedIds>>
    /\ UNCHANGED quizVars
    /\ UNCHANGED <<integrityVars, answerVars>>

(***************************************************************************)
(* toggleStudentCodeForm (lines 63-65).                                    *)
(***************************************************************************)
toggleStudentCodeForm ==
    /\ PageLive
    /\ codeFormDisplay' = "block"
    /\ UNCHANGED <<currentCode, codeStatus, studentFormDisplay, classesFetch,
                   classOptions, classSel, nameOptions, joinStatus, checkCalls,
                   rosterCalls, joinCalls, location, verifiedCodes, joinedIds>>
    /\ UNCHANGED quizVars
    /\ UNCHANGED <<integrityVars, answerVars>>

(***************************************************************************)
(* checkCode from its entry to the await of fetch (lines 36-39); input is  *)
(* the value of the access_code field.                                     *)
(***************************************************************************)
IsMissing(code) == code = <<>>                              \* line 38

checkCode(input) ==
    /\ PageLive
    /\ CodeFormVisible
    /\ LET code == Trim(input)
       IN  IF IsMissing(code)
           THEN /\ codeStatus' = MsgMissingCode
                /\ UNCHANGED checkCalls
           ELSE /\ LandingInFlight < MaxInFlight
                /\ checkCalls' = checkCalls (+) SetToBag({[code |-> code]})
                /\ UNCHANGED codeStatus
    /\ UNCHANGED <<currentCode, codeFormDisplay, studentFormDisplay, classesFetch,
                   classOptions, classSel, nameOptions, joinStatus,
                   rosterCalls, joinCalls, location, verifiedCodes, joinedIds>>
    /\ UNCHANGED quizVars
    /\ UNCHANGED <<integrityVars, answerVars>>

(***************************************************************************)
(* checkCode resumed with the response (lines 40-47).                      *)
(***************************************************************************)
\* Faulty variant: the code is retained whatever the server answered.
CodeAfterCheckAlways(cur, code, data) == code

CodeAfterCheck(cur, code, data) == IF data.ok THEN code ELSE cur   \* lines 41-42

checkCodeResume(c, resp) ==
    /\ PageLive
    /\ c \in BagToSet(checkCalls)
    /\ checkCalls' = checkCalls (-) SetToBag({c})
    /\ verifiedCodes' = IF resp.kind = "json" /\ resp.data.ok
                        THEN verifiedCodes \cup {c.code} ELSE verifiedCodes
    /\ IF resp.kind # "json"
       THEN UNCHANGED <<currentCode, codeStatus, codeFormDisplay, studentFormDisplay>>
       ELSE /\ currentCode' = CodeAfterCheck(currentCode, c.code, resp.data)
            /\ IF resp.data.ok
               THEN /\ codeStatus' = ""
                    /\ codeFormDisplay' = "none"
                    /\ studentFormDisplay' = "block"
               ELSE /\ codeStatus' = ErrorOr(resp.data, MsgCheckFallback)
                    /\ UNCHANGED <<codeFormDisplay, studentFormDisplay>>
    /\ UNCHANGED <<classesFetch, classOptions, classSel, nameOptions, joinStatus,
                   rosterCalls, joinCalls, location, joinedIds>>
    /\ UNCHANGED quizVars
    /\ UNCHANGED <<integrityVars, answerVars>>

(***************************************************************************)
(* The student changes the class selector to cls; onClassChange runs to    *)
(* its fetch (lines 15-20).                                                *)
(***************************************************************************)
onClassChange(cls) ==
    /\ PageLive
    /\ StudentFormVisible
    /\ cls \in Values(classOptions) \cup {""}
    /\ cls # classSel
    /\ classSel' = cls
    /\ nameOptions' = <<>>
    /\ IF cls = ""
       THEN UNCHANGED rosterCalls
       ELSE /\ LandingInFlight < MaxInFlight
            /\ rosterCalls' = rosterCalls (+) SetToBag({[cls |-> cls]})
    /\ UNCHANGED <<currentCode, codeStatus, codeFormDisplay, studentFormDisplay,
                   classesFetch, classOptions, joinStatus, checkCalls, joinCalls,
                   location, verifiedCodes, joinedIds>>
    /\ UNCHANGED quizVars
    /\ UNCHANGED <<integrityVars, answerVars>>

(***************************************************************************)
(* onClassChange resumed with the roster (lines 20-27).                    *)
(***************************************************************************)
onClassChangeResume(c, resp) ==
    /\ PageLive
    /\ c \in BagToSet(rosterCalls)
    /\ rosterCalls' = rosterCalls (-) SetToBag({c})
    /\ IF resp.kind = "json"
       THEN nameOptions' = nameOptions \o SortByRank(Lookup(resp.data.classes, c.cls))
       ELSE UNCHANGED nameOptions
    /\ UNCHANGED <<currentCode, codeStatus, codeFormDisplay, studentFormDisplay,
                   classesFetch, classOptions, classSel, joinStatus, checkCalls,
                   joinCalls, location, verifiedCodes, joinedIds>>
    /\ UNCHANGED quizVars
    /\ UNCHANGED <<integrityVars, answerVars>>

(***************************************************************************)
(* joinQuiz from its entry to the await inside registerName (lines 30-31,  *)
(* 50-55); name is the value the student has chosen in nameSel.            *)
(***************************************************************************)
JoinCall(pc, name, cls, rc, code) ==
    [pc |-> pc, name |-> name, cls |-> cls, rc |-> rc, code |-> code]

\* Faulty variant: the class check is skipped.
NoClassIgnored(cls) == FALSE

NoClass(cls) == cls = ""                                    \* line 53
NoName(name) == name = ""                                   \* line 54

joinQuiz(name) ==
    /\ PageLive
    /\ StudentFormVisible
    /\ name \in Values(nameOptions) \cup {""}
    /\ IF NoClass(classSel)
       THEN /\ joinStatus' = MsgNoClass
            /\ UNCHANGED joinCalls
       ELSE IF NoName(name)
       THEN /\ joinStatus' = MsgNoName
            /\ UNCHANGED joinCalls
       ELSE /\ LandingInFlight < MaxInFlight
            /\ joinCalls' = joinCalls (+)
                   SetToBag({JoinCall("register", name, classSel, NoData, <<>>)})
            /\ UNCHANGED joinStatus
    /\ UNCHANGED <<currentCode, codeStatus, codeFormDisplay, studentFormDisplay,
                   classesFetch, classOptions, classSel, nameOptions, checkCalls,
                   rosterCalls, location, verifiedCodes, joinedIds>>
    /\ UNCHANGED quizVars
    /\ UNCHANGED <<integrityVars, answerVars>>

(***************************************************************************)
(* joinQuiz resumed with the register response (lines 32, 55-57).  The     *)
(* join request carries currentCode as it is now.  name and cls are not    *)
(* read again and are dropped from the call.                               *)
(***************************************************************************)
\* Faulty variant: the register result is not inspected.
RegisterOkAssumed(rc) == TRUE

RegisterOk(rc) == rc.ok                                     \* line 56

joinQuizAfterRegister(c, resp) ==
    /\ PageLive
    /\ c \in BagToSet(joinCalls)
    /\ c.pc = "register"
    /\ IF resp.kind # "json"
       THEN /\ joinCalls' = joinCalls (-) SetToBag({c})
            /\ UNCHANGED joinStatus
       ELSE IF ~RegisterOk(resp.data)
       THEN /\ joinCalls' = joinCalls (-) SetToBag({c})
            /\ joinStatus' = ErrorOr(resp.data, MsgRegisterFallback)
       ELSE /\ joinCalls' = (joinCalls (-) SetToBag({c})) (+)
                   SetToBag({JoinCall("join", "", "", resp.data, currentCode)})
            /\ UNCHANGED joinStatus
    /\ UNCHANGED <<currentCode, codeStatus, codeFormDisplay, studentFormDisplay,
                   classesFetch, classOptions, classSel, nameOptions, checkCalls,
                   rosterCalls, location, verifiedCodes, joinedIds>>
    /\ UNCHANGED quizVars
    /\ UNCHANGED <<integrityVars, answerVars>>

(***************************************************************************)
(* joinQuiz resumed with the join response (lines 58-60).                  *)
(***************************************************************************)
JoinOk(data) == data.ok                                     \* line 59

joinQuizAfterJoin(c, resp) ==
    /\ PageLive
    /\ c \in BagToSet(joinCalls)
    /\ c.pc = "join"
    /\ joinCalls' = joinCalls (-) SetToBag({c})
    /\ joinedIds' = IF resp.kind = "json" /\ resp.data.ok
                    THEN joinedIds \cup {resp.data.quiz_id} ELSE joinedIds
    /\ IF resp.kind # "json"
       THEN UNCHANGED <<location, joinStatus>>
       ELSE IF JoinOk(resp.data)
       THEN /\ location' = "/quiz/" \o resp.data.quiz_id
            /\ UNCHANGED joinStatus
       ELSE /\ joinStatus' = ErrorOr(resp.data, MsgJoinFallback)
            /\ UNCHANGED location
    /\ UNCHANGED <<currentCode, codeStatus, codeFormDisplay, studentFormDisplay,
                   classesFetch, classOptions, classSel, nameOptions, checkCalls,
                   rosterCalls, verifiedCodes>>
    /\ UNCHANGED quizVars
    /\ UNCHANGED <<integrityVars, answerVars>>

NextLanding ==
    \/ \E resp \in ClassesResponses : loadClasses(resp)
    \/ toggleStudentCodeForm
    \/ \E input \in AccessCodeInputs : checkCode(input)
    \/ \E c \in BagToSet(checkCalls) : \E resp \in OkErrorResponses : checkCodeResume(c, resp)
    \/ \E cls \in Values(classOptions) \cup {""} : onClassChange(cls)
    \/ \E c \in BagToSet(rosterCalls) : \E resp \in ClassesResponses : onClassChangeResume(c, resp)
    \/ \E name \in Values(nameOptions) \cup {""} : joinQuiz(name)
    \/ \E c \in BagToSet(joinCalls) : \E resp \in OkErrorResponses : joinQuizAfterRegister(c, resp)
    \/ \E c \in BagToSet(joinCalls) : \E resp \in JoinResponses : joinQuizAfterJoin(c, resp)

SpecLanding == InitLanding /\ [][NextLanding]_vars

(***************************************************************************)
(*                        INTEGRITY REPORTING                              *)
(* The blur listener and showAntiCheat (lines 173-191) on the quiz page.   *)
(* The page defines STUDENT_NAME next to QUIZ_ID and its markup holds the  *)
(* anticheat-banner element.                                               *)
(***************************************************************************)

\* The promise of one fetch('/log_event', ...) with its request body.
LogCall(outcome) ==
    [ body    |-> [quiz_id |-> QUIZ_ID, student |-> STUDENT_NAME, event |-> "blur"],
      outcome |-> outcome ]

\* Faulty variant of the listener: it also cancels the pending tick.
BlurPausingTimer ==
    /\ nBlurs < MaxBlurs
    /\ bannerVisible' = TRUE
    /\ bannerTimers' = bannerTimers + 1
    /\ logCalls' = logCalls (+) SetToBag({LogCall("pending")})
    /\ nLogSent' = nLogSent + 1
    /\ nBlurs' = nBlurs + 1
    /\ timerPending' = FALSE
    /\ UNCHANGED nLogUncaught
    /\ UNCHANGED <<DURATION, remaining, timerEl, quizFetch, inputs,
                   submitBtnDisabled, submitStatus, resultModals, submitCalls,
                   nTicks, nTimerSubmits, nSubmitSent, nAccepted>>
    /\ UNCHANGED <<landingVars, answerVars>>

\* The window loses focus (lines 182-191): showAntiCheat shows the banner and
\* schedules its hiding, then the log request is sent and not awaited.
Blur ==
    /\ nBlurs < MaxBlurs
    /\ bannerVisible' = TRUE
    /\ bannerTimers' = bannerTimers + 1
    /\ logCalls' = logCalls (+) SetToBag({LogCall("pending")})
    /\ nLogSent' = nLogSent + 1
    /\ nBlurs' = nBlurs + 1
    /\ UNCHANGED nLogUncaught
    /\ UNCHANGED <<quizVars, landingVars, answerVars>>

\* Faulty variant: the promise has no rejection handler.
SwallowedNever(outcome) == FALSE

\* .catch(()=>{}) handles every rejection (line 189).
Swallowed(outcome) == TRUE

\* The log request settles: the fetch resolves (whatever the HTTP status) or
\* rejects; nothing is chained on a resolved promise.
LogResponse(c, outcome) ==
    /\ c \in BagToSet(logCalls)
    /\ c.outcome = "pending"
    /\ logCalls' = (logCalls (-) SetToBag({c})) (+) SetToBag({LogCall(outcome)})
    /\ nLogUncaught' = IF outcome = "rejected" /\ ~Swallowed(outcome)
                       THEN nLogUncaught + 1
                       ELSE nLogUncaught
    /\ UNCHANGED <<bannerVisible, bannerTimers, nBlurs, nLogSent>>
    /\ UNCHANGED <<quizVars, landingVars, answerVars>>

\* The 3000 ms timeout of showAntiCheat hides the banner (line 179).
BannerTimeout ==
    /\ bannerTimers > 0
    /\ bannerTimers' = bannerTimers - 1
    /\ bannerVisible' = FALSE
    /\ UNCHANGED <<logCalls, nBlurs, nLogSent, nLogUncaught>>
    /\ UNCHANGED <<quizVars, landingVars, answerVars>>

\* The exam the focus losses happen in: one single-select question.
ShortQuestions ==
    << [id |-> <<"1">>, multi |-> FALSE, options |-> <<Opt("A"), Opt("B")>>] >>

ShortQuizResponses ==
    { Json([NoData EXCEPT !.error = "Quiz not found"]),
      Json([NoData EXCEPT !.questions = ShortQuestions]) }

NextIntegrity ==
    \/ \E resp \in ShortQuizResponses : QuizFetchResponse(resp)
    \/ loadQuiz
    \/ \E i \in 1..Len(inputs) : ClickInput(i)
    \/ \E confirmed \in BOOLEAN : tick(confirmed)
    \/ \E confirmed \in BOOLEAN : ManualSubmit(confirmed)
    \/ \E c \in InFlight : \E resp \in SubmitResponses \cup {NetworkError} : ServerSubmit(c, resp)
    \/ \E c \in BagToSet(submitCalls) : submitQuizResume(c)
    \/ Blur
    \/ \E c \in BagToSet(logCalls) : \E outcome \in {"resolved", "rejected"} : LogResponse(c, outcome)
    \/ BannerTimeout

SpecIntegrity == InitQuiz /\ [][NextIntegrity]_vars

(***************************************************************************)
(*                         ANSWER COLLECTION                               *)
(* submitQuiz's answer collection (lines 125-136) as a function of the     *)
(* question set the form was built from and of the selection.              *)
(***************************************************************************)

\* The single-select and multi-select questions with options A/B/C.
ExampleQuestions ==
    << [id |-> <<"1">>, multi |-> FALSE, options |-> <<Opt("A"), Opt("B"), Opt("C")>>],
       [id |-> <<"2">>, multi |-> TRUE,  options |-> <<Opt("A"), Opt("B"), Opt("C")>>] >>

\* Question ids that carry a section prefix.
SectionQuestions ==
    << [id |-> <<"s", "_", "1">>, multi |-> FALSE, options |-> <<Opt("A"), Opt("B")>>],
       [id |-> <<"s", "_", "2">>, multi |-> TRUE,  options |-> <<Opt("A"), Opt("B")>>] >>

\* A question that came without options.
SparseQuestions ==
    << [id |-> <<"1">>, multi |-> FALSE, options |-> <<Opt("A"), Opt("B")>>],
       [id |-> <<"3">>, multi |-> TRUE,  options |-> <<>>] >>

QuestionSets == {Questions, ExampleQuestions, SectionQuestions, SparseQuestions}

\* The form as loadQuiz built it from the question set; nothing sent yet.
InitAnswers ==
    /\ questionSet \in QuestionSets
    /\ inputs = BuildInputs(questionSet)
    /\ sentAnswers = <<>>
    /\ DURATION = 0
    /\ remaining = 0
    /\ timerEl = ""
    /\ timerPending = FALSE
    /\ quizFetch = [pc |-> "done", resp |-> Pending]
    /\ submitBtnDisabled = FALSE
    /\ submitStatus = [text |-> "", className |-> ""]
    /\ resultModals = 0
    /\ submitCalls = EmptyBag
    /\ nTicks = 0
    /\ nTimerSubmits = 0
    /\ nSubmitSent = 0
    /\ nAccepted = 0
    /\ LandingIdle
    /\ IntegrityIdle

\* Lines 125-136: the mapping put in the request body, kept with the
\* selection it was collected from.
collectAnswers ==
    /\ sentAnswers' = << [selection |-> inputs, answers |-> Formatted(inputs)] >>
    /\ UNCHANGED questionSet
    /\ UNCHANGED <<quizVars, landingVars, integrityVars>>

NextAnswers ==
    \/ \E i \in 1..Len(inputs) : ClickInput(i)
    \/ collectAnswers

SpecAnswers == InitAnswers /\ [][NextAnswers]_vars

(***************************************************************************)
(*                              PROPERTIES                                 *)
(***************************************************************************)

\* A submitQuiz call whose response has arrived and is a JSON body with ok:false.
Rejected(c) == c.resp.kind = "json" /\ ~c.resp.data.ok
\* The step in which the suspended call c resumes and finishes.
Resumes(c) ==
    /\ c \in BagToSet(submitCalls)
    /\ c.resp.kind # "pending"
    /\ submitCalls' = submitCalls (-) SetToBag({c})

(***************************************************************************)
(* C1.  Per page load the server answers at most one submission request    *)
(* with ok:true, whatever the interleaving of manual clicks, timer expiry  *)
(* and responses.                                                          *)
(***************************************************************************)
C1_AtMostOneAccepted == nAccepted <= 1

(***************************************************************************)
(* C2.  At most one submission request is in flight (sent and not yet      *)
(* answered) in every reachable state (stated for durations D >= 1).      *)
(***************************************************************************)
C2_AtMostOneInFlight == DURATION >= 1 => NumInFlight <= 1

(***************************************************************************)
(* C3.  Once the server has answered a submission with ok:true, the        *)
(* submit control is disabled in every later state and no further          *)
(* submission request is sent.                                             *)
(***************************************************************************)
C3_DisabledAfterAccepted ==
    [][ /\ (nAccepted' >= 1 => submitBtnDisabled')
        /\ (nAccepted >= 1 => nSubmitSent' = nSubmitSent) ]_vars

(***************************************************************************)
(* C4.  The tick that brings remaining to 0 while no submission has been   *)
(* accepted sends a submission request, whatever the student answers to a  *)
(* confirmation dialog.                                                    *)
(***************************************************************************)
C4_ExpirySubmitsWithoutConfirm ==
    [][ (timerPending /\ nTicks' = nTicks + 1 /\ remaining' = 0 /\ nAccepted = 0)
            => nSubmitSent' = nSubmitSent + 1 ]_vars

(***************************************************************************)
(* C5.  For a duration D >= 1: remaining falls by exactly 1 per tick, is   *)
(* 0 after exactly D ticks, tick has called submitQuiz exactly once when   *)
(* remaining is 0 and never before, and a further tick is scheduled        *)
(* exactly while the timer runs and remaining is above 0.                  *)
(***************************************************************************)
C5_TimerCountsDown ==
    DURATION >= 1 =>
        /\ remaining = DURATION - nTicks
        /\ remaining >= 0
        /\ nTimerSubmits = (IF remaining = 0 THEN 1 ELSE 0)
        /\ (timerPending => remaining > 0)
        /\ (nTicks > 0 /\ remaining > 0 => timerPending)

C5_Witness ==
    /\ DURATION >= 2
    /\ nTicks = DURATION
    /\ remaining = 0
    /\ nTimerSubmits = 1
    /\ ~timerPending

(***************************************************************************)
(* C6.  When submitQuiz resumes with an ok:false response it shows the     *)
(* error (the server's, or the fallback), leaves the submit control        *)
(* enabled so that a manual submit can follow, and sends no request of     *)
(* its own.                                                                *)
(***************************************************************************)
C6_RejectionLeavesRetryable ==
    [][ \A c \in BagToSet(submitCalls) :
            (Rejected(c) /\ Resumes(c)) =>
                /\ submitStatus' = [text |-> IF c.resp.data.error # ""
                                             THEN c.resp.data.error
                                             ELSE MsgSubmitFallback,
                                    className |-> "text-danger"]
                /\ ~submitBtnDisabled'
                /\ nSubmitSent' = nSubmitSent ]_vars

\* Two requests, both sent by manual submits, the first rejected and shown,
\* the second awaiting its response.
C6_Witness ==
    /\ nSubmitSent = 2
    /\ nTimerSubmits = 0
    /\ nAccepted = 0
    /\ submitStatus.className = "text-danger"
    /\ NumInFlight = 1
    /\ BagCardinality(submitCalls) = 1

\* An access-code input that is empty, or empty once trimmed.
Blank(input) == \A i \in 1..Len(input) : input[i] = " "

LandingRequests == <<checkCalls, rosterCalls, joinCalls>>

JoinPhase(calls) == {c \in BagToSet(calls) : c.pc = "join"}

(***************************************************************************)
(* C7.  checkCode on an input that is empty or blank sends no request,     *)
(* sets the missing-input message and leaves currentCode and both forms    *)
(* as they were.                                                           *)
(***************************************************************************)
C7_BlankCodeFailsLocally ==
    [][ \A input \in AccessCodeInputs :
            (Blank(input) /\ checkCode(input)) =>
                /\ LandingRequests' = LandingRequests
                /\ codeStatus' = MsgMissingCode
                /\ currentCode' = currentCode
                /\ codeFormDisplay' = codeFormDisplay
                /\ studentFormDisplay' = studentFormDisplay ]_vars

\* A blank code was checked after an earlier code had been retained.
C7_Witness ==
    /\ codeStatus = MsgMissingCode
    /\ currentCode = <<"A">>
    /\ studentFormDisplay = "block"
    /\ codeFormDisplay = "block"
    /\ LandingInFlight = 0

(***************************************************************************)
(* C8.  joinQuiz with no class selected shows the no-class message and     *)
(* sends no request; with a class but no name it shows the no-name         *)
(* message and sends no request (so neither register nor join).            *)
(***************************************************************************)
C8_JoinValidatesSelection ==
    [][ \A name \in Values(nameOptions) \cup {""} :
            joinQuiz(name) =>
                /\ classSel = "" =>
                       joinStatus' = MsgNoClass /\ LandingRequests' = LandingRequests
                /\ classSel # "" /\ name = "" =>
                       joinStatus' = MsgNoName /\ LandingRequests' = LandingRequests ]_vars

\* The no-name message is up although names are on offer and a class is chosen.
C8_Witness ==
    /\ joinStatus = MsgNoName
    /\ classSel # ""
    /\ nameOptions # <<>>
    /\ joinCalls = EmptyBag

(***************************************************************************)
(* C9.  A joinQuiz call is at the join request only with a register        *)
(* result of ok:true in hand; on a register result of ok:false it shows    *)
(* the error, sends no join request and does not navigate; the page        *)
(* navigates only to /quiz/<quiz_id> of a join response with ok:true.      *)
(***************************************************************************)
C9_RegisterThenJoinThenNavigate ==
    [][ /\ \A c \in JoinPhase(joinCalls') : c.rc.ok
        /\ \A c \in BagToSet(joinCalls) : \A resp \in OkErrorResponses :
               (joinQuizAfterRegister(c, resp) /\ resp.kind = "json" /\ ~resp.data.ok) =>
                   /\ joinStatus' = ErrorOr(resp.data, MsgRegisterFallback)
                   /\ JoinPhase(joinCalls') = JoinPhase(joinCalls)
                   /\ joinCalls' = joinCalls (-) SetToBag({c})
                   /\ location' = location
        /\ location' # location =>
               \E id \in joinedIds' : location' = "/quiz/" \o id ]_vars

\* The page has navigated to the quiz the join endpoint named.
C9_Witness ==
    /\ location = "/quiz/" \o QUIZ_ID
    /\ QUIZ_ID \in joinedIds
    /\ joinStatus = "Rejected by server"

LoadFailed ==
    /\ quizFetch.pc = "done"
    /\ quizFetch.resp.kind = "json"
    /\ quizFetch.resp.data.error # ""

(***************************************************************************)
(* C11.  When the quiz response carries an error field, loadQuiz shows     *)
(* the error, and from then on no answer input exists, no tick is          *)
(* scheduled or has run, and tick has never called submitQuiz; the         *)
(* question set is fetched once: a finished load never fetches again.      *)
(***************************************************************************)
C11_ErrorStopsLoad ==
    [][ /\ LoadFailed' =>
               /\ inputs' = <<>>
               /\ ~timerPending'
               /\ nTicks' = 0
               /\ nTimerSubmits' = 0
        /\ (~LoadFailed /\ LoadFailed') =>
               submitStatus'.text = quizFetch.resp.data.error
        /\ quizFetch.pc = "done" => quizFetch' = quizFetch
        /\ quizFetch.pc = "answered" => quizFetch'.resp = quizFetch.resp ]_vars

\* The error is on display and a manual submission has since been sent.
C11_Witness ==
    /\ LoadFailed
    /\ submitStatus.text = "Quiz not found"
    /\ nSubmitSent = 1
    /\ inputs = <<>>

\* The ids of a question set.
QuestionIds(qs) == {qs[k].id : k \in DOMAIN qs}
\* The inputs loadQuiz built for the k-th question of qs, out of the form inps.
InputsOfQuestion(qs, k, inps) ==
    LET start == Len(BuildInputs(SubSeq(qs, 1, k - 1)))
    IN  SubSeq(inps, start + 1, start + Len(qs[k].options))
\* The labels of the checked options of the k-th question.
CheckedLabels(qs, k, inps) ==
    {inp.value : inp \in {x \in Values(InputsOfQuestion(qs, k, inps)) : x.checked}}
\* list holds exactly the labels of set, each once.
ListsExactly(list, set) == Values(list) = set /\ Len(list) = Cardinality(set)
\* Every question of qs has at least one option.
AllHaveOptions(qs) == \A k \in DOMAIN qs : qs[k].options # <<>>
\* No question id of qs contains "_" or "[".
PlainIds(qs) ==
    \A k \in DOMAIN qs : \A j \in DOMAIN qs[k].id : qs[k].id[j] \notin {"_", "["}

(***************************************************************************)
(* C12.  The answers mapping sent by submitQuiz has exactly the question   *)
(* ids of the question set as its keys, and under each id exactly the      *)
(* labels of that question's checked options.  Stated here for question    *)
(* sets in which every question has an option.                             *)
(***************************************************************************)
C12_AnswersRecoverSelections ==
    (sentAnswers # <<>> /\ AllHaveOptions(questionSet)) =>
        LET sent == sentAnswers[1]
        IN  /\ DOMAIN sent.answers = QuestionIds(questionSet)
            /\ \A k \in DOMAIN questionSet :
                   ListsExactly(sent.answers[questionSet[k].id],
                                CheckedLabels(questionSet, k, sent.selection))

(***************************************************************************)
(* C13.  In the mapping sent by submitQuiz every question of the question  *)
(* set without a checked option is a key, and its list is empty.  Stated   *)
(* here for question sets whose ids contain neither "_" nor "[".           *)
(***************************************************************************)
C13_UnansweredGivesEmptyList ==
    (sentAnswers # <<>> /\ PlainIds(questionSet)) =>
        LET sent == sentAnswers[1]
        IN  \A k \in DOMAIN questionSet :
                CheckedLabels(questionSet, k, sent.selection) = {} =>
                    /\ questionSet[k].id \in DOMAIN sent.answers
                    /\ sent.answers[questionSet[k].id] = <<>>

(***************************************************************************)
(* C14.  Once every roster response has been delivered, the name selector  *)
(* holds students of the currently selected class only, and no name when   *)
(* no class is selected, also when the response for an earlier selection   *)
(* arrives after a later selection was made.                               *)
(***************************************************************************)
C14_NamesOfSelectedClass ==
    rosterCalls = EmptyBag =>
        Values(nameOptions) \subseteq Values(Lookup(Roster, classSel))

(***************************************************************************)
(* C15.  Every focus loss issues exactly one request to the log endpoint,  *)
(* carrying the page's quiz id, the student name and event "blur"; no      *)
(* other step issues one (a failed request is not retried), and no         *)
(* rejection of a log request is left unhandled.                           *)
(***************************************************************************)
C15_BlurLogsOnce ==
    [][ /\ nBlurs' # nBlurs =>
               /\ nBlurs' = nBlurs + 1
               /\ logCalls' = logCalls (+) SetToBag({
                      [ body    |-> [quiz_id |-> "Q9", student |-> "Nguyen An",
                                     event |-> "blur"],
                        outcome |-> "pending" ]})
        /\ nBlurs' = nBlurs => BagCardinality(logCalls') = BagCardinality(logCalls)
        /\ nLogSent' = nBlurs'
        /\ BagCardinality(logCalls') = nBlurs'
        /\ nLogUncaught' = 0 ]_vars

\* A log request has failed, nothing was raised and nothing was sent again.
C15_Witness ==
    /\ nBlurs = 1
    /\ \E c \in BagToSet(logCalls) : c.outcome = "rejected"
    /\ BagCardinality(logCalls) = 1
    /\ nLogUncaught = 0

\* A tick can run / a click on the submit control can run submitQuiz.
TickEnabled == ENABLED (\E confirmed \in BOOLEAN : tick(confirmed))
SubmitEnabled == ENABLED (\E confirmed \in BOOLEAN : ManualSubmit(confirmed))

(***************************************************************************)
(* C16.  A step of the integrity reporter (a focus loss, the settling of   *)
(* a log request, the hiding of the banner) leaves the remaining seconds,  *)
(* the pending tick, the submit control, the answer inputs and the         *)
(* submissions in flight unchanged, and does not change whether a tick or  *)
(* a manual submission can happen.                                         *)
(***************************************************************************)
C16_ReportingLeavesExamAlone ==
    /\ [][ integrityVars' # integrityVars =>
                UNCHANGED <<remaining, timerPending, timerEl, submitBtnDisabled,
                            submitStatus, inputs, submitCalls>> ]_vars
    /\ [](TickEnabled <=> timerPending)
    /\ [](SubmitEnabled <=> ~submitBtnDisabled)

\* A focus loss was reported and failed while a tick was pending and a
\* submission was in flight.
C16_Witness ==
    /\ nBlurs = 1
    /\ \E c \in BagToSet(logCalls) : c.outcome = "rejected"
    /\ timerPending
    /\ NumInFlight = 1
    /\ submitBtnDisabled

(***************************************************************************)
(* C17.  The remaining seconds are never negative, for every DURATION in   *)
(* 0..MaxDuration, and once tick has stopped the timer they are 0.         *)
(***************************************************************************)
C17_RemainingNonNegative ==
    /\ remaining >= 0
    /\ nTimerSubmits >= 1 => remaining = 0

(***************************************************************************)
(* C18.  While a submitQuiz call has sent its request and has not yet      *)
(* processed the response, the submit control is disabled.  Stated for     *)
(* DURATION >= 1.                                                          *)
(***************************************************************************)
C18_DisabledWhileInFlight ==
    (DURATION >= 1 /\ submitCalls # EmptyBag) => submitBtnDisabled

(***************************************************************************)
(* C19.  When the only submitQuiz call under way resumes from a request    *)
(* that failed at the network level, an error is shown and the submit      *)
(* control is enabled.                                                     *)
(***************************************************************************)
C19_NetworkFailureLeavesRetryable ==
    [][ \A c \in BagToSet(submitCalls) :
            (c.resp = NetworkError /\ Resumes(c) /\ BagCardinality(submitCalls) = 1) =>
                /\ submitStatus'.className = "text-danger"
                /\ submitStatus'.text # ""
                /\ ~submitBtnDisabled' ]_vars

(***************************************************************************)
(* C20.  A submitQuiz call whose confirm is declined sends no request and  *)
(* leaves the submit control, the status text and the answer inputs        *)
(* unchanged, whether the call came from a click or from tick at expiry;   *)
(* a declined click leaves the timer unchanged as well.                    *)
(***************************************************************************)
C20_DeclinedConfirmHasNoEffect ==
    [][ /\ (ManualSubmit(FALSE) \/ (tick(FALSE) /\ Expired(remaining'))) =>
               UNCHANGED <<submitCalls, nSubmitSent, submitBtnDisabled,
                           submitStatus, resultModals, inputs>>
        /\ ManualSubmit(FALSE) =>
               UNCHANGED <<remaining, timerEl, timerPending, nTicks>> ]_vars

\* The timer ran out, the confirm of its submitQuiz call was declined:
\* nothing was sent and the control is as it was.
C20_Witness ==
    /\ DURATION >= 1
    /\ remaining = 0
    /\ ~timerPending
    /\ nTimerSubmits = 1
    /\ nSubmitSent = 0
    /\ ~submitBtnDisabled
    /\ submitStatus.text = ""

====
